---- MODULE Spec2Model ----
(***************************************************************************)
(* Model of projects/l2_pooling/multi_column_synapse_sampling.py:          *)
(* the convergence detector (locateConvergencePoint,                       *)
(* averageConvergencePoint), the trial runner (runExperiment) and the      *)
(* sweep (experimentVaryingSynapseSampling).                               *)
(*                                                                         *)
(* Four specifications share the variables below; each one holds the       *)
(* variables of the others at their idle values.                           *)
(*   SpecLocate   one call of locateConvergencePoint                       *)
(*   SpecAverage  one call of averageConvergencePoint                      *)
(*   SpecTrial    two calls of runExperiment with the same args            *)
(*   SpecSweep    one call of experimentVaryingSynapseSampling             *)
(***************************************************************************)
EXTENDS Integers, Sequences, FiniteSets

VARIABLES
  pc,                \* position of the modelled call
  stats,             \* locateConvergencePoint: the series
  targetValue,       \* locateConvergencePoint / averageConvergencePoint
  convergencePoint,  \* value returned by locateConvergencePoint
  inferenceStats,    \* averageConvergencePoint: list of trace dicts
  prefix,            \* averageConvergencePoint: the prefix
  avgResult,         \* outcome of averageConvergencePoint
  args,              \* the args dict of the latest runExperiment call
  rngState,          \* state of the process-wide generator of module random
  rng0,              \* the generator's state when the process started
  results,           \* SpecTrial: what each runExperiment call fed to infer
  maxNewProximalSynapseCountList,  \* sweep argument
  maxNewDistalSynapseCountList,    \* sweep argument
  iProx, iDist, rpt, \* positions of the three nested loops of the sweep
  trial,             \* SpecSweep: what the latest trial fed to infer
  df                 \* the sweep's table, one row per finished trial

vars == <<pc, stats, targetValue, convergencePoint, inferenceStats, prefix,
          avgResult, args, rngState, rng0, results,
          maxNewProximalSynapseCountList, maxNewDistalSynapseCountList,
          iProx, iDist, rpt, trial, df>>

locateVars == <<stats, targetValue, convergencePoint>>
averageVars == <<inferenceStats, prefix, avgResult>>
trialVars == <<args, rngState, rng0, results>>
sweepVars == <<maxNewProximalSynapseCountList, maxNewDistalSynapseCountList,
               iProx, iDist, rpt, trial, df>>

(***************************************************************************)
(* Bounds                                                                  *)
(***************************************************************************)
MaxLen == 4          \* longest series given to locateConvergencePoint
MaxTraceLen == 1     \* longest trace inside a bundle
MaxBundles == 2      \* most bundles given to averageConvergencePoint

\* values a trace can hold; 40 is the target runExperiment asks for
Values == {39, 40, 41}
TraceValues == {39, 40}

RECURSIVE SeqsUpTo(_, _)
SeqsUpTo(S, n) ==
  IF n = 0 THEN {<<>>}
  ELSE LET shorter == SeqsUpTo(S, n - 1)
       IN shorter \cup {Append(s, v) : s \in {t \in shorter : Len(t) = n - 1}, v \in S}

(***************************************************************************)
(* locateConvergencePoint                                                  *)
(***************************************************************************)
\* stats[::-1]
Reversed(s) == [k \in 1..Len(s) |-> s[Len(s) + 1 - k]]

\* the same scan run from the front of the series
RECURSIVE ScanForward(_, _, _)
ScanForward(rev, target, i) ==
  IF i >= Len(rev) THEN 0
  ELSE IF Reversed(rev)[i + 1] # target THEN Len(rev) - i
  ELSE ScanForward(rev, target, i + 1)

\* the scan with the fall-through returning len(stats)
RECURSIVE ScanNoFallThrough(_, _, _)
ScanNoFallThrough(rev, target, i) ==
  IF i >= Len(rev) THEN Len(rev)
  ELSE IF rev[i + 1] # target THEN Len(rev) - i
  ELSE ScanNoFallThrough(rev, target, i + 1)

\* the scan returning len(stats) - i - 1
RECURSIVE ScanOffByOne(_, _, _)
ScanOffByOne(rev, target, i) ==
  IF i >= Len(rev) THEN 0
  ELSE IF rev[i + 1] # target THEN Len(rev) - i - 1
  ELSE ScanOffByOne(rev, target, i + 1)

\* for i,v in enumerate(rev): if v != targetValue: return len(stats)-i
\* falling out of the loop returns 0.  i is the 0-based enumerate index.
RECURSIVE Scan(_, _, _)
Scan(rev, target, i) ==
  IF i >= Len(rev) THEN 0
  ELSE IF rev[i + 1] # target THEN Len(rev) - i
  ELSE Scan(rev, target, i + 1)

locateConvergencePoint(s, target) == Scan(Reversed(s), target, 0)

(***************************************************************************)
(* averageConvergencePoint                                                 *)
(***************************************************************************)
\* trace names, as character sequences
KeyL2 == <<"L", "2", "R">>
KeyL4 == <<"L", "4", "R">>
Keys == {KeyL2, KeyL4}
Prefixes == {<<"L", "2">>, <<"R">>, <<"X">>}

\* Python's  prefix in key  on strings: substring containment
In(p, key) ==
  \E i \in 1..(Len(key) - Len(p) + 1) : SubSeq(key, i, i + Len(p) - 1) = p

\* the loop body with itNum += 1 moved out of the if
StepKeyCountAll(acc, bundle, key, p, target) ==
  IF In(p, key)
  THEN [itSum |-> acc.itSum + locateConvergencePoint(bundle[key], target),
        itNum |-> acc.itNum + 1]
  ELSE [itSum |-> acc.itSum, itNum |-> acc.itNum + 1]

\* body of the inner loop: if prefix in key: itSum += ...; itNum += 1
StepKey(acc, bundle, key, p, target) ==
  IF In(p, key)
  THEN [itSum |-> acc.itSum + locateConvergencePoint(bundle[key], target),
        itNum |-> acc.itNum + 1]
  ELSE acc

\* for key in stats.iterkeys(): the dict's keys in some order
RECURSIVE OverKeys(_, _, _, _, _)
OverKeys(acc, bundle, todo, p, target) ==
  IF todo = {} THEN acc
  ELSE LET key == CHOOSE k \in todo : TRUE
       IN OverKeys(StepKey(acc, bundle, key, p, target), bundle,
                   todo \ {key}, p, target)

\* for stats in inferenceStats
RECURSIVE OverBundles(_, _, _, _, _)
OverBundles(acc, bundles, b, p, target) ==
  IF b > Len(bundles) THEN acc
  ELSE OverBundles(OverKeys(acc, bundles[b], DOMAIN bundles[b], p, target),
                   bundles, b + 1, p, target)

\* return float(itSum)/itNum : a float num/den, or Python's ZeroDivisionError
averageConvergencePoint(bundles, p, target) ==
  LET acc == OverBundles([itSum |-> 0, itNum |-> 0], bundles, 1, p, target)
  IN IF acc.itNum = 0
     THEN [kind |-> "ZeroDivisionError", num |-> 0, den |-> 0]
     ELSE [kind |-> "float", num |-> acc.itSum, den |-> acc.itNum]

NoResult == [kind |-> "none", num |-> 0, den |-> 0]

(***************************************************************************)
(* runExperiment                                                           *)
(***************************************************************************)
MaxObjects == 2      \* most objects in a SpecTrial configuration
MaxPoints == 3       \* most points per object in a SpecTrial configuration
MaxColumns == 2      \* most columns in a SpecTrial configuration
MaxSeed == 1         \* largest seed in a SpecTrial configuration
RngMod == 7          \* number of states of the modelled generator

\* args.get(key, default)
Get(a, key, default) == IF key \in DOMAIN a THEN a[key] ELSE default

DefaultNumObjects == 10
DefaultNumLocations == 10
DefaultNumFeatures == 10
DefaultNumColumns == 2
DefaultNumPoints == 10
DefaultTrialNum == 42
DefaultObjectSeed == 41

\* getL4Params(): the keys the sweep reads back
getL4Params ==
  [minThreshold |-> 10, activationThreshold |-> 13, maxNewSynapseCount |-> 20,
   seed |-> 41]

\* getL2Params(): the sampling counts, their thresholds and the seed
getL2Params ==
  [minThresholdDistal |-> 10, minThresholdProximal |-> 10,
   activationThresholdDistal |-> 13,
   maxNewProximalSynapseCount |-> 20, maxNewDistalSynapseCount |-> 20,
   maxSynapsesPerDistalSegment |-> 255,
   maxSynapsesPerProximalSegment |-> 2000, seed |-> 41]

\* createObjectMachine(seed=objectSeed).createRandomObjects(...): a list of
\* numObjects objects, each a list of numPoints (location, feature) pairs
\* fixed by the seed.
createRandomObjects(seed, numObjects, numPoints, numLocations, numFeatures) ==
  [o \in 1..numObjects |->
     [p \in 1..numPoints |->
        <<(seed + o + p) % numLocations, (seed + o * p) % numFeatures>>]]

\* the generator of module random: one draw moves the process-wide state
NextRng(s) == (s + 1) % RngMod

\* x[i], x[j] = x[j], x[i]  (1-based here)
Swap(x, i, j) ==
  IF i = j THEN x
  ELSE LET lo == IF i < j THEN i ELSE j
           hi == IF i < j THEN j ELSE i
       IN SubSeq(x, 1, lo - 1) \o <<x[hi]>> \o SubSeq(x, lo + 1, hi - 1)
            \o <<x[lo]>> \o SubSeq(x, hi + 1, Len(x))

\* random.shuffle(x):
\*   for i in reversed(xrange(1, len(x))):
\*     j = int(random() * (i+1)); x[i], x[j] = x[j], x[i]
\* with random() = (new state) / RngMod.  i is the 0-based index.
RECURSIVE ShuffleFrom(_, _, _)
ShuffleFrom(x, s, i) ==
  IF i < 1 THEN [list |-> x, rng |-> s]
  ELSE LET s1 == NextRng(s)
           j == (s1 * (i + 1)) \div RngMod
       IN ShuffleFrom(Swap(x, i + 1, j + 1), s1, i - 1)

shuffle(x, s) == ShuffleFrom(x, s, Len(x) - 1)

\* the inner loops with the second visit appended after the whole pass
SensationsAppendTwice(objectCopy) == objectCopy \o objectCopy

\* for pair in objectCopy: for _ in xrange(2): sensations.append(pair)
Sensations(objectCopy) ==
  [k \in 1..(2 * Len(objectCopy)) |-> objectCopy[(k + 1) \div 2]]

\* for c in range(numColumns): objectCopy = list(obj); shuffle; dwell
RECURSIVE OverColumns(_, _, _, _, _)
OverColumns(obj, c, numColumns, s, objectSensations) ==
  IF c >= numColumns THEN [pairs |-> objectSensations, rng |-> s]
  ELSE LET sh == shuffle(obj, s)
           sensations == Sensations(sh.list)
       IN OverColumns(obj, c + 1, numColumns, sh.rng,
                      [k \in 0..c |-> IF k = c THEN sensations
                                      ELSE objectSensations[k]])

\* for objectId in objects: build objectSensations and the inferConfig
\* {"object": objectId, "numSteps": len(objectSensations[0]), "pairs": ...}
RECURSIVE OverObjects(_, _, _, _, _)
OverObjects(objects, o, numColumns, s, inferConfigs) ==
  IF o > Len(objects) THEN [inferConfigs |-> inferConfigs, rng |-> s]
  ELSE LET cols == OverColumns(objects[o], 0, numColumns, s, <<>>)
           inferConfig == [object |-> o - 1,
                           numSteps |-> Len(cols.pairs[0]),
                           pairs |-> cols.pairs]
       IN OverObjects(objects, o + 1, numColumns, cols.rng,
                      Append(inferConfigs, inferConfig))

\* runExperiment(args) run with the generator in state s: the objects, the
\* inferConfig given to exp.infer for each object, and the generator's state
\* when it returns.
runExperiment(a, s) ==
  LET numObjects == Get(a, "numObjects", DefaultNumObjects)
      numLocations == Get(a, "numLocations", DefaultNumLocations)
      numFeatures == Get(a, "numFeatures", DefaultNumFeatures)
      numColumns == Get(a, "numColumns", DefaultNumColumns)
      numPoints == Get(a, "numPoints", DefaultNumPoints)
      objectSeed == Get(a, "objectSeed", DefaultObjectSeed)
      objects == createRandomObjects(objectSeed, numObjects, numPoints,
                                     numLocations, numFeatures)
      run == OverObjects(objects, 1, numColumns, s, <<>>)
  IN [objects |-> objects, inferConfigs |-> run.inferConfigs, rng |-> run.rng]


(***************************************************************************)
(* experimentVaryingSynapseSampling                                        *)
(***************************************************************************)
MaxCells == 2        \* most cells (pairs of axis values) of a sweep
AxisValues == {5, 20}

numRpts == 20

\* lines 315-321 without the assignment to minThresholdDistal
L2ParamsNoDistalMin(maxNewProximalSynapseCount, maxNewDistalSynapseCount) ==
  [getL2Params EXCEPT
     !.maxNewProximalSynapseCount = maxNewProximalSynapseCount,
     !.minThresholdProximal = maxNewProximalSynapseCount,
     !.maxNewDistalSynapseCount = maxNewDistalSynapseCount,
     !.activationThresholdDistal = maxNewDistalSynapseCount]

\* l2Params = getL2Params() followed by the five assignments
L2ParamsFor(maxNewProximalSynapseCount, maxNewDistalSynapseCount) ==
  [getL2Params EXCEPT
     !.maxNewProximalSynapseCount = maxNewProximalSynapseCount,
     !.minThresholdProximal = maxNewProximalSynapseCount,
     !.maxNewDistalSynapseCount = maxNewDistalSynapseCount,
     !.activationThresholdDistal = maxNewDistalSynapseCount,
     !.minThresholdDistal = maxNewDistalSynapseCount]

\* the dict given to runExperiment
SweepArgs(maxNewProximalSynapseCount, maxNewDistalSynapseCount, r) ==
  [numObjects |-> 10, numLocations |-> 10, numFeatures |-> 7,
   numColumns |-> 3, trialNum |-> r, l4Params |-> getL4Params,
   l2Params |-> L2ParamsFor(maxNewProximalSynapseCount,
                            maxNewDistalSynapseCount),
   profile |-> TRUE, objectSeed |-> r]

\* the result dict with the two axis values exchanged
ResultRowSwapped(r, maxNewProximalSynapseCount, maxNewDistalSynapseCount) ==
  [trial |-> r,
   maxNewProximalSynapseCount |-> maxNewDistalSynapseCount,
   maxNewDistalSynapseCount |-> maxNewProximalSynapseCount]

\* the result dict: the trial number and the two axis values (the measured
\* columns come from the engine)
ResultRow(r, maxNewProximalSynapseCount, maxNewDistalSynapseCount) ==
  [trial |-> r,
   maxNewProximalSynapseCount |-> maxNewProximalSynapseCount,
   maxNewDistalSynapseCount |-> maxNewDistalSynapseCount]

NoArgs == [profile |-> FALSE]

(***************************************************************************)
(* Idle values                                                             *)
(***************************************************************************)
LocateIdle == stats = <<>> /\ targetValue = 40 /\ convergencePoint = -1
AverageIdle == inferenceStats = <<>> /\ prefix = <<>> /\ avgResult = NoResult
TrialIdle == args = NoArgs /\ rngState = 0 /\ rng0 = 0 /\ results = <<>>
SweepIdle ==
  /\ maxNewProximalSynapseCountList = <<>>
  /\ maxNewDistalSynapseCountList = <<>>
  /\ iProx = 1 /\ iDist = 1 /\ rpt = 0
  /\ trial = <<>>
  /\ df = <<>>

(***************************************************************************)
(* SpecLocate                                                              *)
(***************************************************************************)
InitLocate ==
  /\ pc = "locate"
  /\ stats \in SeqsUpTo(Values, MaxLen)
  /\ targetValue \in Values
  /\ convergencePoint = -1
  /\ AverageIdle
  /\ TrialIdle
  /\ SweepIdle

Locate ==
  /\ pc = "locate"
  /\ convergencePoint' = locateConvergencePoint(stats, targetValue)
  /\ pc' = "located"
  /\ UNCHANGED <<stats, targetValue, averageVars, trialVars, sweepVars>>

NextLocate == Locate
SpecLocate == InitLocate /\ [][NextLocate]_vars

(***************************************************************************)
(* SpecAverage                                                             *)
(***************************************************************************)
Traces == SeqsUpTo(TraceValues, MaxTraceLen)
Bundles == UNION {[K -> Traces] : K \in SUBSET Keys}

InitAverage ==
  /\ pc = "average"
  /\ inferenceStats \in SeqsUpTo(Bundles, MaxBundles)
  /\ prefix \in Prefixes
  /\ targetValue = 40
  /\ avgResult = NoResult
  /\ stats = <<>> /\ convergencePoint = -1
  /\ TrialIdle
  /\ SweepIdle

Average ==
  /\ pc = "average"
  /\ avgResult' = averageConvergencePoint(inferenceStats, prefix, targetValue)
  /\ pc' = "averaged"
  /\ UNCHANGED <<inferenceStats, prefix, locateVars, trialVars, sweepVars>>

NextAverage == Average
SpecAverage == InitAverage /\ [][NextAverage]_vars

(***************************************************************************)
(* SpecTrial                                                               *)
(***************************************************************************)
TrialConfigs ==
  {[numObjects |-> o, numPoints |-> p, numColumns |-> c, trialNum |-> t,
    objectSeed |-> s] :
     o \in 1..MaxObjects, p \in 1..MaxPoints, c \in 1..MaxColumns,
     t \in 0..MaxSeed, s \in 0..MaxSeed}
  \cup
  {[numObjects |-> o, objectSeed |-> s] : o \in 1..MaxObjects, s \in 0..MaxSeed}

InitTrial ==
  /\ pc = "trial"
  /\ args \in TrialConfigs
  /\ rngState \in 0..(RngMod - 1)
  /\ rng0 = rngState
  /\ results = <<>>
  /\ LocateIdle
  /\ AverageIdle
  /\ SweepIdle

\* one call of runExperiment(args) in this process
RunExperiment ==
  /\ pc = "trial"
  /\ LET run == runExperiment(args, rngState)
     IN /\ results' = Append(results, [objects |-> run.objects,
                                       inferConfigs |-> run.inferConfigs])
        /\ rngState' = run.rng
  /\ pc' = IF Len(results) = 1 THEN "ran twice" ELSE "trial"
  /\ UNCHANGED <<args, rng0, locateVars, averageVars, sweepVars>>

NextTrial == RunExperiment
SpecTrial == InitTrial /\ [][NextTrial]_vars

(***************************************************************************)
(* SpecSweep                                                               *)
(***************************************************************************)
AxisLists == SeqsUpTo(AxisValues, MaxCells)

InitSweep ==
  /\ pc = "sweep"
  /\ maxNewProximalSynapseCountList \in AxisLists
  /\ maxNewDistalSynapseCountList \in AxisLists
  /\ Len(maxNewProximalSynapseCountList) * Len(maxNewDistalSynapseCountList)
       <= MaxCells
  /\ iProx = 1 /\ iDist = 1 /\ rpt = 0
  /\ df = <<>>
  /\ trial = <<>>
  /\ args = NoArgs
  /\ rngState \in 0..(RngMod - 1)
  /\ rng0 = rngState
  /\ results = <<>>
  /\ LocateIdle
  /\ AverageIdle

\* the three nested loops have an iteration left
HasNext ==
  /\ iProx <= Len(maxNewProximalSynapseCountList)
  /\ iDist <= Len(maxNewDistalSynapseCountList)
  /\ rpt < numRpts

\* one iteration of the innermost loop: build the parameters, run the trial,
\* append the row
SweepTrial ==
  /\ pc = "sweep"
  /\ HasNext
  /\ LET p == maxNewProximalSynapseCountList[iProx]
         d == maxNewDistalSynapseCountList[iDist]
         a == SweepArgs(p, d, rpt)
         run == runExperiment(a, rngState)
         lastRpt == rpt + 1 = numRpts
         lastDist == iDist = Len(maxNewDistalSynapseCountList)
     IN /\ args' = a
        /\ trial' = run.inferConfigs
        /\ rngState' = run.rng
        /\ df' = Append(df, ResultRow(rpt, p, d))
        /\ rpt' = IF lastRpt THEN 0 ELSE rpt + 1
        /\ iDist' = IF lastRpt THEN (IF lastDist THEN 1 ELSE iDist + 1)
                    ELSE iDist
        /\ iProx' = IF lastRpt /\ lastDist THEN iProx + 1 ELSE iProx
  /\ UNCHANGED <<pc, rng0, results, locateVars, averageVars,
                 maxNewProximalSynapseCountList, maxNewDistalSynapseCountList>>

\* df = df.transpose(); return df.  df is still None when no trial ran.
SweepReturn ==
  /\ pc = "sweep"
  /\ ~HasNext
  /\ pc' = IF df = <<>> THEN "AttributeError" ELSE "returned"
  /\ UNCHANGED <<locateVars, averageVars, trialVars, sweepVars>>

NextSweep == SweepTrial \/ SweepReturn
SpecSweep == InitSweep /\ [][NextSweep]_vars

(***************************************************************************)
(* Properties of locateConvergencePoint (SpecLocate)                       *)
(***************************************************************************)
\* C1: the returned r lies in 0..len(stats), every element from 0-based
\* position r to the end equals targetValue, and when r > 0 the element at
\* 0-based position r-1 differs from targetValue.
C1_LastSustainedArrival ==
  pc = "located" =>
    /\ convergencePoint \in 0..Len(stats)
    /\ \A k \in (convergencePoint + 1)..Len(stats) : stats[k] = targetValue
    /\ convergencePoint > 0 => stats[convergencePoint] # targetValue

\* [target, other, target, target] is measured at its last return, 2
C1_Witness ==
  /\ pc = "located"
  /\ Len(stats) = 4
  /\ stats[1] = targetValue /\ stats[2] # targetValue
  /\ stats[3] = targetValue /\ stats[4] = targetValue
  /\ convergencePoint = 2

\* C2: a series whose every element equals targetValue, the empty series
\* included, gives 0.
C2_ConstantGivesZero ==
  (pc = "located" /\ \A k \in 1..Len(stats) : stats[k] = targetValue)
    => convergencePoint = 0

C2_Witness ==
  /\ pc = "located"
  /\ Len(stats) >= 3
  /\ \A k \in 1..Len(stats) : stats[k] = targetValue
  /\ convergencePoint = 0

\* C3: a non-empty series whose last element differs from targetValue gives
\* len(stats), whatever the earlier elements are.
C3_LastDiffersGivesLength ==
  (pc = "located" /\ Len(stats) > 0 /\ stats[Len(stats)] # targetValue)
    => convergencePoint = Len(stats)

C3_Witness ==
  /\ pc = "located"
  /\ Len(stats) >= 3
  /\ stats[Len(stats)] # targetValue
  /\ stats[1] = targetValue /\ stats[2] = targetValue
  /\ convergencePoint = Len(stats)

(***************************************************************************)
(* Properties of averageConvergencePoint (SpecAverage)                     *)
(***************************************************************************)
\* every (bundle index, trace name) whose name contains the prefix
Matching ==
  {bk \in (1..Len(inferenceStats)) \X Keys :
     bk[2] \in DOMAIN inferenceStats[bk[1]] /\ In(prefix, bk[2])}

MatchingIn(b) == {bk \in Matching : bk[1] = b}

PointOf(bk) ==
  locateConvergencePoint(inferenceStats[bk[1]][bk[2]], targetValue)

RECURSIVE SumPoints(_)
SumPoints(S) ==
  IF S = {} THEN 0
  ELSE LET bk == CHOOSE x \in S : TRUE IN PointOf(bk) + SumPoints(S \ {bk})

\* C4: the result is the sum of the convergence points of all matching
\* traces of all bundles divided by the number of those traces.
C4_FlatMean ==
  (pc = "averaged" /\ Matching # {}) =>
    /\ avgResult.kind = "float"
    /\ avgResult.num = SumPoints(Matching)
    /\ avgResult.den = Cardinality(Matching)

\* two bundles, one matching trace each, points 0 and 1, and a trace that
\* does not match: the result is exactly 0.5
C4_Witness ==
  /\ pc = "averaged"
  /\ Len(inferenceStats) = 2
  /\ Cardinality(MatchingIn(1)) = 1 /\ Cardinality(MatchingIn(2)) = 1
  /\ {PointOf(bk) : bk \in Matching} = {0, 1}
  /\ \E k \in DOMAIN inferenceStats[1] : ~In(prefix, k)
  /\ avgResult.kind = "float"
  /\ 2 * avgResult.num = avgResult.den

\* C5: with no matching trace in any bundle the call raises a configuration
\* error that it detects itself, not a division by zero.
C5_RaisesConfigurationError ==
  (pc = "averaged" /\ Matching = {}) => avgResult.kind = "ConfigurationError"

(***************************************************************************)
(* Properties of runExperiment (SpecTrial)                                 *)
(***************************************************************************)
Range(s) == {s[k] : k \in 1..Len(s)}
Count(s, x) == Cardinality({k \in 1..Len(s) : s[k] = x})
IsPermutation(a, b) ==
  /\ Len(a) = Len(b)
  /\ \A x \in Range(a) \cup Range(b) : Count(a, x) = Count(b, x)

\* the first step of every visit
Visits(s) == [k \in 1..(Len(s) \div 2) |-> s[2 * k - 1]]

ArgNumPoints == Get(args, "numPoints", DefaultNumPoints)
ArgNumColumns == Get(args, "numColumns", DefaultNumColumns)

C8_SameArgsSameSensations ==
  Len(results) = 2 => results[1].inferConfigs = results[2].inferConfigs

(***************************************************************************)
(* Properties of experimentVaryingSynapseSampling (SpecSweep)              *)
(***************************************************************************)
NumCells ==
  Len(maxNewProximalSynapseCountList) * Len(maxNewDistalSynapseCountList)

C9_CountsAndThresholdsTogether ==
  df # <<>> =>
    /\ args.l2Params.minThresholdProximal
         = args.l2Params.maxNewProximalSynapseCount
    /\ args.l2Params.activationThresholdDistal
         = args.l2Params.maxNewDistalSynapseCount
    /\ args.l2Params.minThresholdDistal
         = args.l2Params.maxNewDistalSynapseCount
    /\ args.l2Params.maxNewProximalSynapseCount
         = df[Len(df)].maxNewProximalSynapseCount
    /\ args.l2Params.maxNewDistalSynapseCount
         = df[Len(df)].maxNewDistalSynapseCount
    /\ args.trialNum = df[Len(df)].trial
    /\ args.objectSeed = df[Len(df)].trial

C9_Witness ==
  /\ df # <<>>
  /\ args.l2Params.maxNewProximalSynapseCount = 5
  /\ args.l2Params.minThresholdProximal = 5
  /\ args.l2Params.maxNewDistalSynapseCount = 20
  /\ args.l2Params.minThresholdDistal = 20
  /\ args.trialNum = 7 /\ args.objectSeed = 7

\* C10: what a trial feeds the engine is what it would feed it had no other
\* trial run before it in the process.
C10_TrialIndependentOfEarlierTrials ==
  df # <<>> => trial = runExperiment(args, rng0).inferConfigs
====
